---- MODULE Spec2Model ----
(***************************************************************************)
(* Model of the MHLO runtime op catalog, lib/Target/Cpp/emitc_mhlo.h.      *)
(*                                                                         *)
(* Every function of the header is pure: the state of the model is one     *)
(* call, i.e. which function was called last (op), with which arguments    *)
(* (args), what the call produced (ret) and, for the random ops, the       *)
(* distribution object the call constructed (distribution).                *)
(*                                                                         *)
(* A call whose behaviour is undefined in C++ (a read past the end of a    *)
(* vector, an integer division by zero) has a SET of outcomes: abnormal    *)
(* termination ("crash") or a result computed from an unspecified value.   *)
(***************************************************************************)
EXTENDS Integers, Sequences, FiniteSets

VARIABLES op, args, ret, distribution

vars == <<op, args, ret, distribution>>

(***************************************************************************)
(* Bounds of the model.                                                    *)
(***************************************************************************)
\* longest operand sequence
MaxLen == 2
\* largest repetition count given to broadcast_in_dim
MaxCount == 3
\* longest shape given to rng_uniform
MaxRank == 2
\* largest number of samples a modelled rng call draws
MaxSamples == 3
\* largest output count N of rng_bit_generator
MaxN == 2

(***************************************************************************)
(* Element types.  The arithmetic ops are instantiated at T = uint8_t:     *)
(* operands are promoted to int, the functor result is narrowed back to T  *)
(* when it is stored.                                                      *)
(***************************************************************************)
UInt8Mod == 256

\* operand values the calls are tried with (both ends of uint8_t)
Elems == {0, 1, UInt8Mod - 1}

\* what a read past the end of a vector, or the result of a division by
\* zero, may yield: an unspecified value of the element type
Garbage == Elems

SeqsUpTo(S, n) == UNION {[1..k -> S] : k \in 0..n}

Vectors == SeqsUpTo(Elems, MaxLen)

Masks == SeqsUpTo(BOOLEAN, MaxLen)

\* outcomes of a call
Ok(v) == [kind |-> "ok", val |-> v]

Crash == [kind |-> "crash", val |-> <<>>]

NoDistribution == [a |-> 0, b |-> 0, live |-> FALSE]

(***************************************************************************)
(* Function objects of <functional>.                                       *)
(***************************************************************************)
ArithFunctors == {"plus", "minus", "multiplies", "divides"}

CompareFunctors ==
    {"equal_to", "not_equal_to", "less", "less_equal", "greater", "greater_equal"}

\* f(a, b), for operands already promoted to int (b # 0 for divides)
Apply(f, a, b) ==
    CASE f = "plus" -> a + b
      [] f = "minus" -> a - b
      [] f = "multiplies" -> a * b
      [] f = "divides" -> a \div b
      [] f = "equal_to" -> a = b
      [] f = "not_equal_to" -> a # b
      [] f = "less" -> a < b
      [] f = "less_equal" -> a <= b
      [] f = "greater" -> a > b
      [] f = "greater_equal" -> a >= b

\* conversion of a functor result to the element type of the destination
Narrow(f, v) == IF f \in ArithFunctors THEN v % UInt8Mod ELSE v

\* integer division by zero is undefined
Undefined(f, a, b) == f = "divides" /\ b = 0

\* the values the destination may hold after  *d = f(a, b)
Stored(f, a, b) == IF Undefined(f, a, b) THEN Garbage ELSE {Narrow(f, Apply(f, a, b))}

\* the values a read of v[i] may yield (i counts from 1)
Read(v, i, junk) == IF i <= Len(v) THEN {v[i]} ELSE junk

(***************************************************************************)
(* std::transform(x.begin(), x.end(), y.begin(), z.begin(), f): the set of *)
(* outcomes.  It walks x, reads y at the same offset without looking at    *)
(* y's length, and writes z at the same offset.                            *)
(***************************************************************************)
TransformOffByOne(x, y, z, f) ==
    LET n == IF Len(x) = 0 THEN 0 ELSE Len(x) - 1
        vals(i) == UNION {Stored(f, x[i], b) : b \in Read(y, i, Garbage)}
        all == UNION {vals(i) : i \in 1..n} \cup {z[i] : i \in 1..Len(z)}
    IN  {Ok(r) : r \in {w \in [1..Len(z) -> all] :
                          \A i \in 1..Len(z) :
                             IF i <= n THEN w[i] \in vals(i) ELSE w[i] = z[i]}}

Transform(x, y, z, f) ==
    LET n == Len(x)
        vals(i) == UNION {Stored(f, x[i], b) : b \in Read(y, i, Garbage)}
        all == UNION {vals(i) : i \in 1..n} \cup {z[i] : i \in 1..Len(z)}
        results == {w \in [1..Len(z) -> all] :
                      \A i \in 1..Len(z) :
                         IF i <= n THEN w[i] \in vals(i) ELSE w[i] = z[i]}
        mayCrash == \/ Len(y) < n
                    \/ \E i \in 1..n : \E b \in Read(y, i, Garbage) :
                          Undefined(f, x[i], b)
    IN  {Ok(r) : r \in results} \cup (IF mayCrash THEN {Crash} ELSE {})

(***************************************************************************)
(* Binary elementwise ops, scalar forms: return f(x, y) converted to T.    *)
(***************************************************************************)
Scalar(f, x, y) ==
    IF Undefined(f, x, y)
    THEN {Ok(g) : g \in Garbage} \cup {Crash}
    ELSE {Ok(Narrow(f, Apply(f, x, y)))}

add_scalar(x, y) == Scalar("plus", x, y)

sub_scalar(x, y) == Scalar("minus", x, y)

mul_scalar(x, y) == Scalar("multiplies", x, y)

div_scalar(x, y) == Scalar("divides", x, y)

(***************************************************************************)
(* Binary elementwise ops, sequence forms:  z(x); transform(...); return z *)
(***************************************************************************)
add(x, y) == Transform(x, y, x, "plus")

sub(x, y) == Transform(x, y, x, "minus")

mul(x, y) == Transform(x, y, x, "multiplies")

div(x, y) == Transform(x, y, x, "divides")

(***************************************************************************)
(* compare<T, Compare>(x, y):  z(x.size()), all false; transform; return z *)
(***************************************************************************)
compareSwapped(x, y, Compare) ==
    Transform(y, x, [i \in 1..Len(y) |-> FALSE], Compare)

compare(x, y, Compare) == Transform(x, y, [i \in 1..Len(x) |-> FALSE], Compare)

(***************************************************************************)
(* abs on a complex sequence.  A std::vector is its elements and its       *)
(* capacity; size() is the number of elements.                             *)
(***************************************************************************)
\* complex operands: [re, im] with an integral magnitude
Complexes == {[re |-> 0, im |-> 0], [re |-> 3, im |-> 4], [re |-> 0, im |-> 0 - 2]}

ComplexVectors == SeqsUpTo(Complexes, MaxLen)

\* std::vector<T> z;
VecEmpty == [elems |-> <<>>, capacity |-> 0]

\* z.reserve(n): storage for n elements, the elements and size() as they were
VecReserve(z, n) == [z EXCEPT !.capacity = IF n > z.capacity THEN n ELSE z.capacity]

\* z.size()
VecSize(z) == Len(z.elems)

\* std::abs(std::complex<T>): the magnitude
ComplexAbs(c) == CHOOSE r \in 0..(c.re * c.re + c.im * c.im) :
    /\ r * r <= c.re * c.re + c.im * c.im
    /\ (r + 1) * (r + 1) > c.re * c.re + c.im * c.im

\* for (i = 0; i < z.size(); i++) z[i] = std::abs(x[i]);   (i counts from 1)
RECURSIVE AbsLoop(_, _, _)
AbsLoop(z, x, i) ==
    IF i > VecSize(z)
    THEN z
    ELSE AbsLoop([z EXCEPT !.elems[i] = ComplexAbs(x[i])], x, i + 1)

abs(x) == {Ok(AbsLoop(VecReserve(VecEmpty, Len(x)), x, 1).elems)}

(***************************************************************************)
(* Structural ops.                                                         *)
(***************************************************************************)
\* z.insert(z.end(), x.begin(), x.end())
VecInsertEnd(z, x) == [i \in 1..(Len(z) + Len(x)) |->
                          IF i <= Len(z) THEN z[i] ELSE x[i - Len(z)]]

\* for (i = 0; i < n; i++) z.insert(z.end(), x.begin(), x.end());
RECURSIVE BroadcastLoop(_, _, _, _)
BroadcastLoop(z, x, i, n) ==
    IF i >= n THEN z ELSE BroadcastLoop(VecInsertEnd(z, x), x, i + 1, n)

broadcast_in_dimOneShort(x, n) == {Ok(BroadcastLoop(<<>>, x, 1, n))}

broadcast_in_dim(x, n) == {Ok(BroadcastLoop(<<>>, x, 0, n))}

concatenateReversed(x, y) == VecInsertEnd(y, x)

\* z(x); z.insert(z.end(), y.begin(), y.end()); return z   (never undefined)
concatenate(x, y) == VecInsertEnd(x, y)

\* z(x.size()); for (i < z.size()) z[i] = s[i] ? x[i] : y[i];
\* s and y are read at i whatever their length
selectSwapped(s, x, y) ==
    LET n == Len(x)
        vals(i) == UNION {IF c THEN Read(y, i, Garbage) ELSE {x[i]} :
                            c \in Read(s, i, BOOLEAN)}
        all == UNION {vals(i) : i \in 1..n}
    IN  {Ok(r) : r \in {w \in [1..n -> all] : \A i \in 1..n : w[i] \in vals(i)}}

select(s, x, y) ==
    LET n == Len(x)
        vals(i) == UNION {IF c THEN {x[i]} ELSE Read(y, i, Garbage) :
                            c \in Read(s, i, BOOLEAN)}
        all == UNION {vals(i) : i \in 1..n}
        results == {w \in [1..n -> all] : \A i \in 1..n : w[i] \in vals(i)}
        mayCrash == \E i \in 1..n :
                        \/ i > Len(s)
                        \/ i <= Len(s) /\ ~s[i] /\ i > Len(y)
    IN  {Ok(r) : r \in results} \cup (IF mayCrash THEN {Crash} ELSE {})

\* operands of the documented examples
ExampleVectors == {<<1, 2>>, <<3, 4>>, <<1, 2, 3>>, <<10, 20, 30>>}

ExampleMasks == {<<TRUE, FALSE, TRUE>>}

(***************************************************************************)
(* Fixed-width integers.  A value is held as its two's complement bytes,   *)
(* least significant first, so that a 64-bit product and its conversion to *)
(* a 32-bit int are computed exactly.                                      *)
(***************************************************************************)
ByteMod == 2 ^ 8

\* sizeof(int): the type of the literal 1 that std::accumulate starts from
IntBytes == 4

\* sizeof(int64_t): the operand type of std::multiplies<int64_t>
Int64Bytes == 8

\* the k low bytes of v (sign-extended when v < 0)
RECURSIVE Bytes(_, _)
Bytes(v, k) == IF k = 0 THEN <<>> ELSE <<v % ByteMod>> \o Bytes(v \div ByteMod, k - 1)

RECURSIVE SumTo(_, _, _)
SumTo(a, b, p) == IF p = 0 THEN 0 ELSE a[p] * b[Len(a) + 1 - p] + SumTo(a, b, p - 1)

\* column p of the product of a and b: sum of a[i] * b[p + 1 - i], i in 1..p
Column(a, b, p) == SumTo(SubSeq(a, 1, p), SubSeq(b, 1, p), p)

\* the product of a and b modulo ByteMod^Len(a), from column p on
RECURSIVE MulBytes(_, _, _, _)
MulBytes(a, b, p, carry) ==
    IF p > Len(a)
    THEN <<>>
    ELSE LET s == Column(a, b, p) + carry
         IN  <<s % ByteMod>> \o MulBytes(a, b, p + 1, s \div ByteMod)

\* the signed value of the bytes b (which must fit a 32-bit int)
RECURSIVE Signed(_)
Signed(b) ==
    IF Len(b) = 1
    THEN IF b[1] >= ByteMod \div 2 THEN b[1] - ByteMod ELSE b[1]
    ELSE Signed(Tail(b)) * ByteMod + b[1]

\* std::multiplies<int64_t>()(acc, d), acc an int, stored back into the int
\* accumulator: both operands convert to int64_t, the product converts to int
MultipliesIntoInt(acc, d) ==
    Signed(SubSeq(MulBytes(Bytes(acc, Int64Bytes), Bytes(d, Int64Bytes), 1, 0),
                  1, IntBytes))

\* std::accumulate(shape.begin(), shape.end(), init, std::multiplies<int64_t>())
RECURSIVE Accumulate(_, _)
Accumulate(shape, init) ==
    IF shape = <<>>
    THEN init
    ELSE Accumulate(Tail(shape), MultipliesIntoInt(init, Head(shape)))

(***************************************************************************)
(* Random ops, instantiated at T = int16_t.                                *)
(***************************************************************************)
Int16Min == -32768

Int16Max == 32767

\* dimension sizes the shapes are built from
Dims == {0, 1, 2, 3, 2 ^ 15, 2 ^ 16}

Shapes == SeqsUpTo(Dims, MaxRank)

\* bounds rng_uniform is tried with
RngBounds == (0 - 1)..2

\* std::uniform_int_distribution<T>(a, b): closed on both ends
UniformIntDistribution(a, b) == [a |-> a, b |-> b, live |-> TRUE]

\* what distribution(gen) may return, whatever the entropy source yields.
\* Both ends, their neighbours and the values around zero stand for a wide
\* range; a range of at most four values is covered whole.
Samples(d) == {v \in {d.a, d.a + 1, 0 - 1, 0, 1, d.b - 1, d.b} : d.a <= v /\ v <= d.b}

\* std::vector<T> result(n) with n < 0: the size converts to a size_t beyond
\* max_size()
LengthError == [kind |-> "length_error", val |-> <<>>]

\* int64_t n = std::accumulate(shape.begin(), shape.end(), 1, ...)
SampleCount(shape) == Accumulate(shape, 1)

\* high is exclusive in the op and inclusive in the distribution
rng_uniform_distribution(low, high) == UniformIntDistribution(low, high - 1)

rng_uniform(low, high, shape) ==
    LET n == SampleCount(shape)
        d == rng_uniform_distribution(low, high)
    IN  IF n < 0
        THEN {LengthError}
        ELSE {Ok(r) : r \in [1..n -> Samples(d)]}

\* generator states: sequences of 64-bit words
States == SeqsUpTo({0, 1}, MaxLen)

\* the algorithm selectors: DEFAULT, THREE_FRY, PHILOX
Algorithms == {0, 1, 2}

\* rng_bit_generator<T, Algorithm, N>(state): (newState, resultVector)
rng_bit_generator(Algorithm, N, state) ==
    {[kind |-> o.kind, val |-> [state |-> state, values |-> o.val]] :
        o \in rng_uniform(Int16Min, Int16Max, <<N>>)}

(***************************************************************************)
(* The calls.                                                              *)
(***************************************************************************)
Init ==
    /\ op = "none"
    /\ args = <<>>
    /\ ret = Ok(<<>>)
    /\ distribution = NoDistribution

\* no call is in progress
Idle == op = "none"

AddScalar ==
    /\ Idle
    /\ \E x \in Elems, y \in Elems :
          /\ op' = "add_scalar"
          /\ args' = [x |-> x, y |-> y]
          /\ ret' \in add_scalar(x, y)
    /\ distribution' = NoDistribution

SubScalar ==
    /\ Idle
    /\ \E x \in Elems, y \in Elems :
          /\ op' = "sub_scalar"
          /\ args' = [x |-> x, y |-> y]
          /\ ret' \in sub_scalar(x, y)
    /\ distribution' = NoDistribution

MulScalar ==
    /\ Idle
    /\ \E x \in Elems, y \in Elems :
          /\ op' = "mul_scalar"
          /\ args' = [x |-> x, y |-> y]
          /\ ret' \in mul_scalar(x, y)
    /\ distribution' = NoDistribution

DivScalar ==
    /\ Idle
    /\ \E x \in Elems, y \in Elems :
          /\ op' = "div_scalar"
          /\ args' = [x |-> x, y |-> y]
          /\ ret' \in div_scalar(x, y)
    /\ distribution' = NoDistribution

Add ==
    /\ Idle
    /\ \E x \in Vectors, y \in Vectors :
          /\ op' = "add"
          /\ args' = [x |-> x, y |-> y]
          /\ ret' \in add(x, y)
    /\ distribution' = NoDistribution

Sub ==
    /\ Idle
    /\ \E x \in Vectors, y \in Vectors :
          /\ op' = "sub"
          /\ args' = [x |-> x, y |-> y]
          /\ ret' \in sub(x, y)
    /\ distribution' = NoDistribution

Mul ==
    /\ Idle
    /\ \E x \in Vectors, y \in Vectors :
          /\ op' = "mul"
          /\ args' = [x |-> x, y |-> y]
          /\ ret' \in mul(x, y)
    /\ distribution' = NoDistribution

Div ==
    /\ Idle
    /\ \E x \in Vectors, y \in Vectors :
          /\ op' = "div"
          /\ args' = [x |-> x, y |-> y]
          /\ ret' \in div(x, y)
    /\ distribution' = NoDistribution

Compare ==
    /\ Idle
    /\ \E x \in Vectors, y \in Vectors, c \in CompareFunctors :
          /\ op' = "compare"
          /\ args' = [x |-> x, y |-> y, Compare |-> c]
          /\ ret' \in compare(x, y, c)
    /\ distribution' = NoDistribution

AbsComplex ==
    /\ Idle
    /\ \E x \in ComplexVectors :
          /\ op' = "abs"
          /\ args' = [x |-> x]
          /\ ret' \in abs(x)
    /\ distribution' = NoDistribution

BroadcastInDim ==
    /\ Idle
    /\ \E x \in Vectors \cup ExampleVectors, n \in 0..MaxCount :
          /\ op' = "broadcast_in_dim"
          /\ args' = [x |-> x, n |-> n]
          /\ ret' \in broadcast_in_dim(x, n)
    /\ distribution' = NoDistribution

Concatenate ==
    /\ Idle
    /\ \E x \in Vectors \cup ExampleVectors, y \in Vectors \cup ExampleVectors :
          /\ op' = "concatenate"
          /\ args' = [x |-> x, y |-> y]
          /\ ret' = Ok(concatenate(x, y))
    /\ distribution' = NoDistribution

\* three operands chained pairwise, grouped to the left and to the right
ConcatenateChain ==
    /\ Idle
    /\ \E x \in Vectors, y \in Vectors, z \in Vectors :
          /\ op' = "concatenate_chain"
          /\ args' = [x |-> x, y |-> y, z |-> z]
          /\ ret' = Ok([left |-> concatenate(concatenate(x, y), z),
                        right |-> concatenate(x, concatenate(y, z))])
    /\ distribution' = NoDistribution

Select ==
    /\ Idle
    /\ \E s \in Masks \cup ExampleMasks :
       \E x \in Vectors \cup ExampleVectors, y \in Vectors \cup ExampleVectors :
          /\ op' = "select"
          /\ args' = [s |-> s, x |-> x, y |-> y]
          /\ ret' \in select(s, x, y)
    /\ distribution' = NoDistribution

RngUniform ==
    /\ Idle
    /\ \E low \in RngBounds, high \in RngBounds, shape \in Shapes :
          /\ low < high
          /\ SampleCount(shape) <= MaxSamples
          /\ op' = "rng_uniform"
          /\ args' = [low |-> low, high |-> high, shape |-> shape]
          /\ ret' \in rng_uniform(low, high, shape)
          /\ distribution' = rng_uniform_distribution(low, high)

RngBitGenerator ==
    /\ Idle
    /\ \E a \in Algorithms, N \in 0..MaxN, state \in States :
          /\ op' = "rng_bit_generator"
          /\ args' = [Algorithm |-> a, N |-> N, state |-> state]
          /\ ret' \in rng_bit_generator(a, N, state)
          /\ distribution' = rng_uniform_distribution(Int16Min, Int16Max)

\* the caller takes the result; nothing of the call outlives it
Return ==
    /\ ~Idle
    /\ op' = "none"
    /\ args' = <<>>
    /\ ret' = Ok(<<>>)
    /\ distribution' = NoDistribution

Next ==
    \/ AddScalar
    \/ SubScalar
    \/ MulScalar
    \/ DivScalar
    \/ Add
    \/ Sub
    \/ Mul
    \/ Div
    \/ Compare
    \/ AbsComplex
    \/ BroadcastInDim
    \/ Concatenate
    \/ ConcatenateChain
    \/ Select
    \/ RngUniform
    \/ RngBitGenerator
    \/ Return

Spec == Init /\ [][Next]_vars

(***************************************************************************)
(* The properties.                                                         *)
(***************************************************************************)
SameLength2 == Len(args.x) = Len(args.y)

SameLength3 == Len(args.s) = Len(args.x) /\ Len(args.x) = Len(args.y)

\* C1: add, compare and select on sequence operands whose lengths are not
\* all equal end with the LengthMismatch error and return no result.
C1_LengthMismatch ==
    (\/ op \in {"add", "compare"} /\ ~SameLength2
     \/ op = "select" /\ ~SameLength3)
        => ret.kind = "LengthMismatch"

\* C2: integer div with a zero divisor element (sequence form, equal
\* lengths) or a zero divisor (scalar form) ends with the DivisionByZero
\* error and returns no result.
C2_DivisionByZero ==
    (\/ op = "div" /\ SameLength2 /\ \E i \in 1..Len(args.y) : args.y[i] = 0
     \/ op = "div_scalar" /\ args.y = 0)
        => ret.kind = "DivisionByZero"

\* C3: abs on a complex sequence of length n returns n reals, the i-th the
\* Euclidean magnitude of x[i].
C3_ComplexAbs ==
    op = "abs" =>
        /\ ret.kind = "ok"
        /\ Len(ret.val) = Len(args.x)
        /\ \A i \in 1..Len(args.x) :
              /\ ret.val[i] >= 0
              /\ ret.val[i] * ret.val[i]
                    = args.x[i].re * args.x[i].re + args.x[i].im * args.x[i].im

\* x + y, x - y, x * y in the 8-bit unsigned element type
ElementLaw(name, a, b) ==
    CASE name \in {"add", "add_scalar"} -> (a + b) % (2 ^ 8)
      [] name \in {"sub", "sub_scalar"} -> (a - b) % (2 ^ 8)
      [] name \in {"mul", "mul_scalar"} -> (a * b) % (2 ^ 8)

\* C4: for equal-length x, y of one integer element type, add(x, y) has
\* their length and add(x, y)[i] is x[i] + y[i] in that type at every i;
\* likewise sub and mul; the scalar forms apply the same rule.
C4_Elementwise ==
    /\ op \in {"add", "sub", "mul"} /\ SameLength2 =>
          /\ ret.kind = "ok"
          /\ Len(ret.val) = Len(args.x)
          /\ \A i \in 1..Len(args.x) :
                ret.val[i] = ElementLaw(op, args.x[i], args.y[i])
    /\ op \in {"add_scalar", "sub_scalar", "mul_scalar"} =>
          ret = Ok(ElementLaw(op, args.x, args.y))

\* a product past the range of the element type, at full operand length
C4_Witness ==
    /\ op = "mul"
    /\ ret.kind = "ok"
    /\ Len(args.x) = MaxLen
    /\ Len(args.y) = MaxLen
    /\ \E i \in 1..MaxLen : args.x[i] * args.y[i] >= 2 ^ 8
    /\ \E i \in 1..MaxLen : args.x[i] * args.y[i] < 2 ^ 8

\* n is the product of the dimension sizes of shape
RECURSIVE IsProduct(_, _)
IsProduct(n, shape) ==
    IF shape = <<>>
    THEN n = 1
    ELSE IF Head(shape) = 0
         THEN n = 0
         ELSE n % Head(shape) = 0 /\ IsProduct(n \div Head(shape), Tail(shape))

\* C5: for low < high, integral rng_uniform(low, high, shape) returns as
\* many samples as the product of the dimension sizes of shape, each v
\* with low <= v < high.
C5_UniformHalfOpen ==
    op = "rng_uniform" =>
        /\ ret.kind = "ok"
        /\ IsProduct(Len(ret.val), args.shape)
        /\ \A i \in 1..Len(ret.val) :
              args.low <= ret.val[i] /\ ret.val[i] < args.high

\* C6: for s, x, y of equal length n, select(s, x, y) has length n and its
\* i-th element is x[i] where s[i] holds and y[i] where it does not;
\* select([true,false,true],[1,2,3],[10,20,30]) is [1,20,3].
C6_Select ==
    /\ op = "select" /\ SameLength3 =>
          /\ ret.kind = "ok"
          /\ Len(ret.val) = Len(args.x)
          /\ \A i \in 1..Len(args.x) :
                /\ args.s[i] => ret.val[i] = args.x[i]
                /\ ~args.s[i] => ret.val[i] = args.y[i]
    /\ (/\ op = "select"
        /\ args = [s |-> <<TRUE, FALSE, TRUE>>, x |-> <<1, 2, 3>>, y |-> <<10, 20, 30>>])
          => ret = Ok(<<1, 20, 3>>)

C6_Witness ==
    /\ op = "select"
    /\ args.s = <<TRUE, FALSE, TRUE>>
    /\ args.x = <<1, 2, 3>>
    /\ args.y = <<10, 20, 30>>
    /\ ret.kind = "ok"

\* C7: broadcast_in_dim(x, n) is n copies of x one after the other: its
\* length is n * len(x) and its k-th element (from 0) is x[k mod len(x)];
\* broadcast_in_dim([1,2], 3) is [1,2,1,2,1,2].
C7_Broadcast ==
    op = "broadcast_in_dim" =>
        LET m == Len(args.x)
        IN  /\ ret.kind = "ok"
            /\ Len(ret.val) = args.n * m
            /\ \A k \in 0..(args.n * m - 1) : ret.val[k + 1] = args.x[(k % m) + 1]
            /\ (args.n = 0 \/ m = 0) => ret.val = <<>>
            /\ (args.x = <<1, 2>> /\ args.n = 3) => ret.val = <<1, 2, 1, 2, 1, 2>>

C7_Witness ==
    /\ op = "broadcast_in_dim"
    /\ args.x = <<1, 2>>
    /\ args.n = 3
    /\ Len(ret.val) = 6

\* C8: concatenate(x, y) is x followed by y; chained pairwise in the same
\* order it groups either way; it does not commute:
\* concatenate([3,4],[1,2]) differs from concatenate([1,2],[3,4]).
C8_Concatenate ==
    /\ op = "concatenate" =>
          /\ ret.kind = "ok"
          /\ Len(ret.val) = Len(args.x) + Len(args.y)
          /\ \A i \in 1..Len(args.x) : ret.val[i] = args.x[i]
          /\ \A j \in 1..Len(args.y) : ret.val[Len(args.x) + j] = args.y[j]
    /\ (op = "concatenate" /\ args.x = <<3, 4>> /\ args.y = <<1, 2>>) =>
          /\ ret.val = <<3, 4, 1, 2>>
          /\ ret.val # concatenate(args.y, args.x)
    /\ op = "concatenate_chain" =>
          /\ ret.val.left = ret.val.right
          /\ Len(ret.val.left) = Len(args.x) + Len(args.y) + Len(args.z)
          /\ \A i \in 1..Len(args.x) : ret.val.left[i] = args.x[i]
          /\ \A i \in 1..Len(args.z) :
                ret.val.left[Len(args.x) + Len(args.y) + i] = args.z[i]

\* three non-empty operands, not all alike, chained
C8_Witness ==
    /\ op = "concatenate_chain"
    /\ Len(args.x) = MaxLen
    /\ Len(args.y) = MaxLen
    /\ Len(args.z) = MaxLen
    /\ args.x # args.y
    /\ args.y # args.z
    /\ ret.val.left = ret.val.right

\* the six comparison kinds
Holds(kind, a, b) ==
    CASE kind = "equal_to" -> a = b
      [] kind = "not_equal_to" -> ~(a = b)
      [] kind = "less" -> a < b
      [] kind = "less_equal" -> ~(b < a)
      [] kind = "greater" -> b < a
      [] kind = "greater_equal" -> ~(a < b)

\* C9: for equal-length x, y and a comparison kind, compare returns a mask
\* of their length whose i-th element is the kind's predicate on
\* (x[i], y[i]); compare(x, x, Equal) is all true.
C9_Compare ==
    op = "compare" /\ SameLength2 =>
        /\ ret.kind = "ok"
        /\ Len(ret.val) = Len(args.x)
        /\ \A i \in 1..Len(args.x) :
              ret.val[i] = Holds(args.Compare, args.x[i], args.y[i])
        /\ (args.Compare = "equal_to" /\ args.x = args.y) =>
              \A i \in 1..Len(args.x) : ret.val[i] = TRUE

\* an ordering kind on full-length operands, true at one index, false at another
C9_Witness ==
    /\ op = "compare"
    /\ args.Compare = "less_equal"
    /\ Len(args.x) = MaxLen
    /\ Len(args.y) = MaxLen
    /\ ret.kind = "ok"
    /\ \E i \in 1..MaxLen : ret.val[i]
    /\ \E i \in 1..MaxLen : ~ret.val[i]

\* C10: rng_bit_generator returns the state as it was given, for every
\* algorithm, with N values drawn by rng_uniform over the whole range of
\* T: every value from the minimum to the maximum of T can come out.
C10_BitGenerator ==
    op = "rng_bit_generator" =>
        /\ ret.kind = "ok"
        /\ ret.val.state = args.state
        /\ Len(ret.val.values) = args.N
        /\ distribution.live
        /\ distribution.a = Int16Min
        /\ distribution.b = Int16Max

====
